---- MODULE Spec2Model ----
(***************************************************************************)
(* Request-execution engine of Yaak: the gRPC connection engine            *)
(* (cmd_grpc_go in src-tauri/src/lib.rs) and the HTTP executor             *)
(* (send_http_request in src-tauri/src/http_request.rs), with the parts    *)
(* of the persistence layer (yaak_models/src/queries.rs) they use.         *)
(***************************************************************************)
EXTENDS Integers, Sequences, FiniteSets, TLC

(* ------------------------------ bounds -------------------------------- *)
MaxSignals == 2      \* caller signals emitted on the grpc_client_msg channel
MaxServerMsgs == 2   \* inbound messages a stream yields
MaxReadErrs == 1     \* read errors a stream yields
MaxClock == 1        \* ticks of the CURRENT_TIMESTAMP clock (seconds)
MaxElapsed == 1      \* largest value of Instant::elapsed().as_millis()
MaxLog == 3          \* rows of one connection in the event store read back
MaxHeaders == 2      \* per-request headers of an HTTP request
MaxUrlLen == 3       \* tokens of a rendered URL

(* ------------------------- program constants -------------------------- *)
CodeOk == 0
CodeCancelled == 1
CodeUnknown == 2
CodeUnavailable == 14
RelayCap == 16
PendingStatus == -1
NoStatus == -100           \* Option<i32>::None of GrpcEvent.status
NoError == "none"          \* Option<String>::None
ErrCodes == {5, 13}        \* status codes an RPC error may carry
Messages == {[content |-> "m_ok", parses |-> TRUE],
             [content |-> "m_bad", parses |-> FALSE]}

VARIABLES
  pc,               \* position of the cmd_grpc_go invocation
  conn,             \* the stored GrpcConnection record
  events,           \* grpc_events table rows of the connection, in insert order
  listener,         \* the grpc_client_msg_<id> listener is registered
  maybe_in_msg_tx,  \* the listener still holds the relay's sending half
  in_msg_rx,        \* messages held by the relay channel
  forwarded,        \* messages the gRPC stream has taken from the relay
  cancelled,        \* value of the watch channel cancelled_tx/cancelled_rx
  shape,            \* [cs, ss]: method_desc.is_client_streaming / is_server_streaming
  gl,               \* position of the grpc_listen future
  openRes,          \* result of opening the call: [ok, code, call]
  sel,              \* position of the spawned task around tokio::select!
  spawnedWrites,    \* event writes spawned by the listener, not yet run
  now,              \* CURRENT_TIMESTAMP of the database
  delivered,        \* number of caller signals emitted so far
  lastSig,          \* the last caller signal emitted
  terminalWrites,   \* number of terminal updates of the connection record
  reads,            \* messages read from the stream so far
  readErrs,         \* read errors so far
  listenerPanicked, \* the listener callback hit try_send(..).unwrap() on Err
  cancelledAtSpawn, \* the signal was already raised when the race began
  committed         \* the callback has taken a commit (maybe_in_msg_tx.take())

VARIABLES
  hpc,              \* position of the HTTP send
  hkind,            \* which command runs send_http_request
  response,         \* the HttpResponse value send_http_request works on / returns
  stored,           \* the http_responses row of the send (when it has an id)
  cancel_rx,        \* value of the send's watch channel
  netTask,          \* the spawned client.execute task
  netResult,        \* what client.execute produced
  bodyFile,         \* a body file has been written
  houtcome,         \* how the send ended
  jarWrites         \* upsert_cookie_jar calls of the send

hvars == <<hpc, hkind, response, stored, cancel_rx, netTask, netResult, bodyFile, houtcome,
           jarWrites>>

gvars == <<pc, conn, events, listener, maybe_in_msg_tx, in_msg_rx, forwarded,
           cancelled, shape, gl, openRes, sel, spawnedWrites, now, delivered,
           lastSig, terminalWrites, reads, readErrs, listenerPanicked,
           cancelledAtSpawn, committed>>

VARIABLES
  listing,          \* what list_grpc_events last returned
  hdrIn,            \* request.headers of an HTTP request
  authIn,           \* request.authentication_type
  hdrOut,           \* the HeaderMap handed to the request builder
  urlIn,            \* the rendered URL
  url,              \* url_string after ensure_proto
  urlOnce,          \* url_string after the first ensure_proto
  napplied          \* how often ensure_proto has been applied

xvars == <<listing, hdrIn, authIn, hdrOut, urlIn, url, urlOnce, napplied>>

VARIABLES
  sends,            \* the concurrent HTTP sends: position, cancel channel, cookie store
  jar,              \* the cookies of the stored cookie jar the sends share
  lastWriter,       \* the send whose upsert_cookie_jar came last (0: none)
  cancelRequested,  \* the sends whose cancel event has been emitted
  rpc,              \* position of the startup recovery
  http_responses,   \* http_responses rows left by an earlier run
  grpc_connections  \* grpc_connections rows left by an earlier run

yvars == <<sends, jar, lastWriter, cancelRequested, rpc, http_responses, grpc_connections>>

vars == <<gvars, hvars, xvars, yvars>>

(* ------------------------------ records ------------------------------- *)
NoConn == [status |-> PendingStatus, elapsed |-> 0, error |-> NoError, exists |-> FALSE]

GrpcEvent(t, c, s) ==
  [event_type |-> t, content |-> c, status |-> s, created_at |-> now]

\* upsert_grpc_event with an empty id: insert one row stamped CURRENT_TIMESTAMP
upsert_grpc_event(log, ev) == Append(log, ev)

IsEnd(e) == e.event_type = "connection_end"
EndIdx(log) == {i \in DOMAIN log : IsEnd(log[i])}

\* list_grpc_events orders by created_at DESC; rows of the same second come in
\* an order the query does not fix.  find() takes the first ConnectionEnd of
\* the listing: any ConnectionEnd row that no ConnectionEnd row is newer than.
closed_status(log) ==
  IF EndIdx(log) = {} THEN {CodeUnavailable}
  ELSE {log[i].status : i \in {j \in EndIdx(log) :
            \A k \in EndIdx(log) : log[k].created_at <= log[j].created_at}}

(* --------------------------- cmd_grpc_go ------------------------------ *)
GInit ==
  /\ pc = "create"
  /\ conn = NoConn
  /\ events = <<>>
  /\ listener = FALSE
  /\ maybe_in_msg_tx = TRUE
  /\ in_msg_rx = <<>>
  /\ forwarded = <<>>
  /\ cancelled = FALSE
  /\ shape = [cs |-> FALSE, ss |-> FALSE]
  /\ gl = "none"
  /\ openRes = [ok |-> TRUE, code |-> CodeOk, call |-> "none"]
  /\ sel = "none"
  /\ spawnedWrites = {}
  /\ now = 0
  /\ delivered = 0
  /\ lastSig = "none"
  /\ terminalWrites = 0
  /\ reads = 0
  /\ readErrs = 0
  /\ listenerPanicked = FALSE
  /\ cancelledAtSpawn = FALSE
  /\ committed = FALSE

\* lines 247-262: the pending record
CreatePending ==
  /\ pc = "create"
  /\ conn' = [status |-> PendingStatus, elapsed |-> 0, error |-> NoError, exists |-> TRUE]
  /\ pc' = "check"
  /\ UNCHANGED <<events, listener, maybe_in_msg_tx, in_msg_rx, forwarded, cancelled,
                 shape, gl, openRes, sel, spawnedWrites, now, delivered, lastSig,
                 terminalWrites, reads, readErrs, listenerPanicked>>
  /\ UNCHANGED <<cancelledAtSpawn, committed, hvars, xvars, yvars>>

\* lines 281-287: service and method are required
CheckServiceMethod ==
  /\ pc = "check"
  /\ \E has \in BOOLEAN : pc' = IF has THEN "connect" ELSE "returned_err"
  /\ UNCHANGED <<conn, events, listener, maybe_in_msg_tx, in_msg_rx, forwarded,
                 cancelled, shape, gl, openRes, sel, spawnedWrites, now, delivered,
                 lastSig, terminalWrites, reads, readErrs, listenerPanicked>>
  /\ UNCHANGED <<cancelledAtSpawn, committed, hvars, xvars, yvars>>

\* lines 289-318: connect; on failure the record gets elapsed and error
Connect ==
  /\ pc = "connect"
  /\ \E ok \in BOOLEAN, e \in 0..MaxElapsed :
       IF ok
       THEN /\ pc' = "method"
            /\ UNCHANGED <<conn, terminalWrites>>
       ELSE /\ conn' = [conn EXCEPT !.elapsed = e, !.error = "connect error"]
            /\ terminalWrites' = terminalWrites + 1
            /\ pc' = "returned_ok"
  /\ UNCHANGED <<events, listener, maybe_in_msg_tx, in_msg_rx, forwarded, cancelled,
                 shape, gl, openRes, sel, spawnedWrites, now, delivered, lastSig,
                 reads, readErrs, listenerPanicked>>
  /\ UNCHANGED <<cancelledAtSpawn, committed, hvars, xvars, yvars>>

\* lines 320-322: method descriptor lookup; the descriptor fixes the call shape
MethodLookup ==
  /\ pc = "method"
  /\ \E ok \in BOOLEAN, cs \in BOOLEAN, ss \in BOOLEAN :
       IF ok
       THEN /\ pc' = "listen"
            /\ shape' = [cs |-> cs, ss |-> ss]
       ELSE /\ pc' = "returned_err"
            /\ UNCHANGED shape
  /\ UNCHANGED <<conn, events, listener, maybe_in_msg_tx, in_msg_rx, forwarded,
                 cancelled, gl, openRes, sel, spawnedWrites, now, delivered,
                 lastSig, terminalWrites, reads, readErrs, listenerPanicked>>
  /\ UNCHANGED <<cancelledAtSpawn, committed, hvars, xvars, yvars>>

\* line 404: window.listen_any(grpc_client_msg_<id>, cb)
RegisterListener ==
  /\ pc = "listen"
  /\ listener' = TRUE
  /\ pc' = "start_event"
  /\ UNCHANGED <<conn, events, maybe_in_msg_tx, in_msg_rx, forwarded, cancelled,
                 shape, gl, openRes, sel, spawnedWrites, now, delivered, lastSig,
                 terminalWrites, reads, readErrs, listenerPanicked>>
  /\ UNCHANGED <<cancelledAtSpawn, committed, hvars, xvars, yvars>>

\* lines 416-426: the ConnectionStart event
ConnectionStart ==
  /\ pc = "start_event"
  /\ events' = upsert_grpc_event(events, GrpcEvent("connection_start", "Connecting to url", NoStatus))
  /\ pc' = "spawn"
  /\ UNCHANGED <<conn, listener, maybe_in_msg_tx, in_msg_rx, forwarded, cancelled,
                 shape, gl, openRes, sel, spawnedWrites, now, delivered, lastSig,
                 terminalWrites, reads, readErrs, listenerPanicked>>
  /\ UNCHANGED <<cancelledAtSpawn, committed, hvars, xvars, yvars>>

\* lines 647-695: spawn the task that races grpc_listen against cancellation,
\* return the connection id
SpawnAndReturn ==
  /\ pc = "spawn"
  /\ pc' = "returned_ok"
  /\ sel' = "racing"
  /\ gl' = "open"
  /\ cancelledAtSpawn' = cancelled
  /\ UNCHANGED committed
  /\ UNCHANGED <<conn, events, listener, maybe_in_msg_tx, in_msg_rx, forwarded,
                 cancelled, shape, openRes, spawnedWrites, now, delivered, lastSig,
                 terminalWrites, reads, readErrs, listenerPanicked>>
  /\ UNCHANGED <<hvars, xvars, yvars>>

\* line 396: the only send on the watch channel is send_replace(true), and the
\* callback never reaches it once the value is true (line 338)
watch_version == IF cancelled THEN 1 ELSE 0

\* a receiver that subscribes only when the spawned task starts to wait
rx_seen_version_AtRaceStart == IF cancelledAtSpawn THEN 1 ELSE 0

\* line 275: cancelled_rx is created with the channel and has seen version 0
rx_seen_version == 0

(* ------------------- the caller-message listener (cb) ----------------- *)
\* a callback that returns at once only after a cancel
cb_ignores_OnlyCancelled == cancelled

\* lines 337-352: the two guards that make the callback return at once
cb_ignores == cancelled \/ ~maybe_in_msg_tx

\* line 345: after a panic under the lock the mutex is poisoned and expect() panics
cb_panics_on_lock == ~cancelled /\ listenerPanicked

\* in_msg_stream (line 279) lives in the grpc_listen future; a client-streaming
\* or bidirectional call takes it over (lines 436, 445) and holds it while the
\* call is open
ReceiverAlive ==
  /\ gl \notin {"done", "dropped"}
  /\ (shape.cs /\ gl \notin {"none", "open"}) => (shape.ss /\ openRes.ok)

\* lines 273, 695: the command's own in_msg_tx lives until the command returns
in_msg_tx_alive == pc \notin {"returned_ok", "returned_err"}

\* the request stream (line 279) ends when every sender is gone and the relay
\* is drained
OutboundClosed == ~maybe_in_msg_tx /\ ~in_msg_tx_alive /\ in_msg_rx = <<>>

\* a send that does not look at the capacity of the relay
try_send_fails_Unbounded == ~ReceiverAlive

\* line 378: try_send fails when the relay is full or its receiver is gone
try_send_fails == Len(in_msg_rx) >= RelayCap \/ ~ReceiverAlive

SpawnedEvent(t, c) == [seq |-> delivered + 1, event_type |-> t, content |-> c]

\* a deserialize failure that also gives up the sending half
DeserializeError_ClosesRelay ==
  /\ spawnedWrites' = spawnedWrites \cup {SpawnedEvent("error", "deserialize error")}
  /\ maybe_in_msg_tx' = FALSE
  /\ UNCHANGED <<in_msg_rx, cancelled, listenerPanicked>>

\* lines 362-376: deserialize_message failed: spawn the Error event, return
DeserializeError ==
  /\ spawnedWrites' = spawnedWrites \cup {SpawnedEvent("error", "deserialize error")}
  /\ UNCHANGED <<maybe_in_msg_tx, in_msg_rx, cancelled, listenerPanicked>>

\* a commit that leaves the sending half in place
Commit_KeepsSender ==
  UNCHANGED <<maybe_in_msg_tx, in_msg_rx, cancelled, spawnedWrites, listenerPanicked>>

\* lines 392-394: IncomingMsg::Commit drops the listener's sending half
Commit ==
  /\ maybe_in_msg_tx' = FALSE
  /\ UNCHANGED <<in_msg_rx, cancelled, spawnedWrites, listenerPanicked>>

\* A caller emits a signal on grpc_client_msg_<id>; the callback (lines 337-402)
\* runs only while the listener is registered.
Deliver(sig, m) ==
  /\ conn.exists
  /\ delivered < MaxSignals
  /\ delivered' = delivered + 1
  /\ lastSig' = IF sig = "Message" THEN m.content ELSE sig
  /\ IF ~listener \/ cb_ignores \/ cb_panics_on_lock \/ sig = "Garbage"
     THEN UNCHANGED <<maybe_in_msg_tx, in_msg_rx, cancelled, spawnedWrites, listenerPanicked>>
     ELSE CASE sig = "Message" ->
                 IF ~m.parses
                 THEN DeserializeError
                 ELSE IF try_send_fails
                 THEN /\ listenerPanicked' = TRUE
                      /\ UNCHANGED <<maybe_in_msg_tx, in_msg_rx, cancelled, spawnedWrites>>
                 ELSE /\ in_msg_rx' = Append(in_msg_rx, m.content)
                      /\ spawnedWrites' = spawnedWrites \cup {SpawnedEvent("client_message", m.content)}
                      /\ UNCHANGED <<maybe_in_msg_tx, cancelled, listenerPanicked>>
            [] sig = "Commit" -> Commit
            [] sig = "Cancel" ->
                 /\ cancelled' = TRUE
                 /\ UNCHANGED <<maybe_in_msg_tx, in_msg_rx, spawnedWrites, listenerPanicked>>
  /\ committed' = (committed \/ (sig = "Commit" /\ listener /\ ~cb_ignores /\ ~cb_panics_on_lock))
  /\ UNCHANGED <<pc, conn, events, listener, forwarded, shape, gl, openRes, sel,
                 now, terminalWrites, reads, readErrs>>
  /\ UNCHANGED <<cancelledAtSpawn, hvars, xvars, yvars>>

DeliverMessage == \E m \in Messages : Deliver("Message", m)
DeliverCommit == Deliver("Commit", CHOOSE m \in Messages : TRUE)
DeliverCancel == Deliver("Cancel", CHOOSE m \in Messages : TRUE)
DeliverGarbage == Deliver("Garbage", CHOOSE m \in Messages : TRUE)

\* lines 363-374 and 379-390: an event write spawned by the callback runs
RunSpawnedWrite ==
  /\ \E w \in spawnedWrites :
       /\ events' = upsert_grpc_event(events, GrpcEvent(w.event_type, w.content, NoStatus))
       /\ spawnedWrites' = spawnedWrites \ {w}
  /\ UNCHANGED <<pc, conn, listener, maybe_in_msg_tx, in_msg_rx, forwarded, cancelled,
                 shape, gl, openRes, sel, now, delivered, lastSig, terminalWrites,
                 reads, readErrs, listenerPanicked>>
  /\ UNCHANGED <<cancelledAtSpawn, committed, hvars, xvars, yvars>>

\* the open client-streaming or bidirectional call takes the next relayed message
\* (in_msg_stream, lines 279, 436, 445)
StreamTakesMessage ==
  /\ shape.cs
  /\ sel = "racing"
  /\ ReceiverAlive
  /\ in_msg_rx # <<>>
  /\ forwarded' = Append(forwarded, Head(in_msg_rx))
  /\ in_msg_rx' = Tail(in_msg_rx)
  /\ UNCHANGED <<pc, conn, events, listener, maybe_in_msg_tx, cancelled, shape, gl,
                 openRes, sel, spawnedWrites, now, delivered, lastSig, terminalWrites,
                 reads, readErrs, listenerPanicked>>
  /\ UNCHANGED <<cancelledAtSpawn, committed, hvars, xvars, yvars>>

\* the database clock moves to the next second
Tick ==
  /\ now < MaxClock
  /\ now' = now + 1
  /\ UNCHANGED <<pc, conn, events, listener, maybe_in_msg_tx, in_msg_rx, forwarded,
                 cancelled, shape, gl, openRes, sel, spawnedWrites, delivered, lastSig,
                 terminalWrites, reads, readErrs, listenerPanicked>>
  /\ UNCHANGED <<cancelledAtSpawn, committed, hvars, xvars, yvars>>

(* ----------------------- grpc_listen (lines 428-644) ------------------- *)
EndEvent(content, status) == GrpcEvent("connection_end", content, status)

\* lines 516-535 and 565-584: the ConnectionEnd event of a failed call
FailedToConnectEvent(res) == EndEvent("Failed to connect", res.code)

\* the future advances only while the select is still racing
Racing == sel = "racing"

\* the select takes its first branch in the poll in which grpc_listen returns
Returned(g) == IF g = "done" THEN "closed_branch" ELSE sel

\* a dispatch that confuses the two one-sided streaming shapes
dispatch_Swapped(cs, ss) ==
  CASE cs /\ ss -> "streaming"
    [] cs /\ ~ss -> "server_streaming"
    [] ~cs /\ ss -> "client_streaming"
    [] OTHER -> "unary"

\* lines 429-461: the call made for the descriptor's two flags
dispatch(cs, ss) ==
  CASE cs /\ ss -> "streaming"
    [] cs /\ ~ss -> "client_streaming"
    [] ~cs /\ ss -> "server_streaming"
    [] OTHER -> "unary"

\* lines 429-461: open the call of the connection's shape; an error without a
\* status is reported as Code::Unknown (lines 528-531, 577-580)
OpenCall ==
  /\ Racing /\ gl = "open"
  /\ \E ok \in BOOLEAN, code \in ErrCodes \cup {CodeUnknown} :
       openRes' = [ok |-> ok, code |-> IF ok THEN CodeOk ELSE code,
                   call |-> dispatch(shape.cs, shape.ss)]
  /\ gl' = IF shape.cs THEN "dispatch" ELSE "client_msg"
  /\ UNCHANGED <<pc, conn, events, listener, maybe_in_msg_tx, in_msg_rx, forwarded,
                 cancelled, shape, sel, spawnedWrites, now, delivered, lastSig,
                 terminalWrites, reads, readErrs, listenerPanicked>>
  /\ UNCHANGED <<cancelledAtSpawn, committed, hvars, xvars, yvars>>

\* lines 463-474: the ClientMessage event of a call whose client does not stream
ClientMessageEvent ==
  /\ Racing /\ gl = "client_msg"
  /\ events' = upsert_grpc_event(events, GrpcEvent("client_message", "{}", NoStatus))
  /\ gl' = "dispatch"
  /\ UNCHANGED <<pc, conn, listener, maybe_in_msg_tx, in_msg_rx, forwarded, cancelled,
                 shape, openRes, sel, spawnedWrites, now, delivered, lastSig,
                 terminalWrites, reads, readErrs, listenerPanicked>>
  /\ UNCHANGED <<cancelledAtSpawn, committed, hvars, xvars, yvars>>

\* lines 478-493 and 547-562: the Info event for the response metadata;
\* lines 516-539 and 565-589: the ConnectionEnd event of a failed call
ResponseInfoOrError ==
  /\ Racing /\ gl = "dispatch"
  /\ IF openRes.ok
     THEN /\ events' = upsert_grpc_event(events, GrpcEvent("info", "Received response", NoStatus))
          /\ gl' = IF shape.ss THEN "loop" ELSE "resp_msg"
          /\ UNCHANGED sel
     ELSE /\ events' = upsert_grpc_event(events, FailedToConnectEvent(openRes))
          /\ gl' = "done"
          /\ sel' = Returned("done")
  /\ UNCHANGED <<pc, conn, listener, maybe_in_msg_tx, in_msg_rx, forwarded, cancelled,
                 shape, openRes, spawnedWrites, now, delivered, lastSig,
                 terminalWrites, reads, readErrs, listenerPanicked>>
  /\ UNCHANGED <<cancelledAtSpawn, committed, hvars, xvars, yvars>>

\* lines 494-503: the ServerMessage event of the single response
ResponseMessage ==
  /\ Racing /\ gl = "resp_msg"
  /\ events' = upsert_grpc_event(events, GrpcEvent("server_message", "response", NoStatus))
  /\ gl' = "resp_end"
  /\ UNCHANGED <<pc, conn, listener, maybe_in_msg_tx, in_msg_rx, forwarded, cancelled,
                 shape, openRes, sel, spawnedWrites, now, delivered, lastSig,
                 terminalWrites, reads, readErrs, listenerPanicked>>
  /\ UNCHANGED <<cancelledAtSpawn, committed, hvars, xvars, yvars>>

\* lines 504-514 and 590: ConnectionEnd(Ok), then the future returns
ResponseComplete ==
  /\ Racing /\ gl = "resp_end"
  /\ events' = upsert_grpc_event(events, EndEvent("Connection complete", CodeOk))
  /\ gl' = "done"
  /\ sel' = Returned("done")
  /\ UNCHANGED <<pc, conn, listener, maybe_in_msg_tx, in_msg_rx, forwarded, cancelled,
                 shape, openRes, spawnedWrites, now, delivered, lastSig,
                 terminalWrites, reads, readErrs, listenerPanicked>>
  /\ UNCHANGED <<cancelledAtSpawn, committed, hvars, xvars, yvars>>

\* where the stream-read loop goes after a read error (lines 628-642: no break)
AfterReadError == "loop"

\* a read loop that puts the new event in front of the log
ReadMessage_Prepends ==
  /\ Racing /\ gl = "loop"
  /\ readErrs = 0
  /\ reads < MaxServerMsgs
  /\ reads' = reads + 1
  /\ events' = <<GrpcEvent("server_message", ToString(reads + 1), NoStatus)>> \o events
  /\ UNCHANGED <<pc, conn, listener, maybe_in_msg_tx, in_msg_rx, forwarded, cancelled,
                 shape, gl, openRes, sel, spawnedWrites, now, delivered, lastSig,
                 terminalWrites, readErrs, listenerPanicked>>
  /\ UNCHANGED <<cancelledAtSpawn, committed, hvars, xvars, yvars>>

\* lines 595-607: stream.message() yields a message
ReadMessage ==
  /\ Racing /\ gl = "loop"
  /\ readErrs = 0
  /\ reads < MaxServerMsgs
  /\ reads' = reads + 1
  /\ events' = upsert_grpc_event(events, GrpcEvent("server_message", ToString(reads + 1), NoStatus))
  /\ UNCHANGED <<pc, conn, listener, maybe_in_msg_tx, in_msg_rx, forwarded, cancelled,
                 shape, gl, openRes, sel, spawnedWrites, now, delivered, lastSig,
                 terminalWrites, readErrs, listenerPanicked>>
  /\ UNCHANGED <<cancelledAtSpawn, committed, hvars, xvars, yvars>>

\* lines 608-627: end of stream: ConnectionEnd(Unavailable), break
ReadEnd ==
  /\ Racing /\ gl = "loop"
  /\ events' = upsert_grpc_event(events, EndEvent("Connection complete", CodeUnavailable))
  /\ gl' = "done"
  /\ sel' = Returned("done")
  /\ UNCHANGED <<pc, conn, listener, maybe_in_msg_tx, in_msg_rx, forwarded, cancelled,
                 shape, openRes, spawnedWrites, now, delivered, lastSig,
                 terminalWrites, reads, readErrs, listenerPanicked>>
  /\ UNCHANGED <<cancelledAtSpawn, committed, hvars, xvars, yvars>>

\* lines 628-641: read error: ConnectionEnd with the status' code
ReadError ==
  /\ Racing /\ gl = "loop"
  /\ readErrs < MaxReadErrs
  /\ readErrs' = readErrs + 1
  /\ \E code \in ErrCodes :
       events' = upsert_grpc_event(events, EndEvent("status error", code))
  /\ gl' = AfterReadError
  /\ sel' = Returned(AfterReadError)
  /\ UNCHANGED <<pc, conn, listener, maybe_in_msg_tx, in_msg_rx, forwarded, cancelled,
                 shape, openRes, spawnedWrites, now, delivered, lastSig,
                 terminalWrites, reads, listenerPanicked>>
  /\ UNCHANGED <<cancelledAtSpawn, committed, hvars, xvars, yvars>>

(* ------------------ the spawned task (lines 649-692) ------------------ *)
\* a cancel branch that is not exclusive with the completion branch
CancelReady_AfterCompletion ==
  cancelled /\ (sel = "racing" \/ (sel = "unlisten" /\ gl = "done"))

\* line 669: cancelled_rx.changed() is ready while the select is racing
CancelReady == watch_version # rx_seen_version /\ sel = "racing"

\* a copy of the stream-end event where the Cancelled event belongs
CancelledEnd_AsStreamEnd == EndEvent("Connection complete", CodeUnavailable)

\* lines 670-677: the ConnectionEnd event of a cancelled connection
CancelledEnd == EndEvent("Cancelled", CodeCancelled)

\* lines 652-668: grpc_listen returned: read the status back, update the record
FinalizeClosed ==
  /\ sel = "closed_branch"
  /\ \E st \in closed_status(events), e \in 0..MaxElapsed :
       conn' = [conn EXCEPT !.elapsed = e, !.status = st]
  /\ terminalWrites' = terminalWrites + 1
  /\ sel' = "unlisten"
  /\ UNCHANGED <<pc, events, listener, maybe_in_msg_tx, in_msg_rx, forwarded, cancelled,
                 shape, gl, openRes, spawnedWrites, now, delivered, lastSig,
                 reads, readErrs, listenerPanicked>>
  /\ UNCHANGED <<cancelledAtSpawn, committed, hvars, xvars, yvars>>

\* lines 669-678: cancellation wins: grpc_listen is dropped, ConnectionEnd(Cancelled)
CancelEvent ==
  /\ CancelReady
  /\ gl' = "dropped"
  /\ events' = upsert_grpc_event(events, CancelledEnd)
  /\ sel' = "cancel_update"
  /\ UNCHANGED <<pc, conn, listener, maybe_in_msg_tx, in_msg_rx, forwarded, cancelled,
                 shape, openRes, spawnedWrites, now, delivered, lastSig,
                 terminalWrites, reads, readErrs, listenerPanicked>>
  /\ UNCHANGED <<cancelledAtSpawn, committed, hvars, xvars, yvars>>

\* lines 679-688: the record becomes Cancelled
CancelUpdate ==
  /\ sel = "cancel_update"
  /\ \E e \in 0..MaxElapsed :
       conn' = [conn EXCEPT !.elapsed = e, !.status = CodeCancelled]
  /\ terminalWrites' = terminalWrites + 1
  /\ sel' = "unlisten"
  /\ UNCHANGED <<pc, events, listener, maybe_in_msg_tx, in_msg_rx, forwarded, cancelled,
                 shape, gl, openRes, spawnedWrites, now, delivered, lastSig,
                 reads, readErrs, listenerPanicked>>
  /\ UNCHANGED <<cancelledAtSpawn, committed, hvars, xvars, yvars>>

\* an unlisten placed inside the completion branch of the select only
Unlisten_OnCompletionOnly ==
  /\ sel = "unlisten"
  /\ listener' = (gl = "dropped")
  /\ sel' = "finished"
  /\ UNCHANGED <<pc, conn, events, maybe_in_msg_tx, in_msg_rx, forwarded, cancelled,
                 shape, gl, openRes, spawnedWrites, now, delivered, lastSig,
                 terminalWrites, reads, readErrs, listenerPanicked>>
  /\ UNCHANGED <<cancelledAtSpawn, committed, hvars, xvars, yvars>>

\* line 691: w.unlisten(event_handler)
Unlisten ==
  /\ sel = "unlisten"
  /\ listener' = FALSE
  /\ sel' = "finished"
  /\ UNCHANGED <<pc, conn, events, maybe_in_msg_tx, in_msg_rx, forwarded, cancelled,
                 shape, gl, openRes, spawnedWrites, now, delivered, lastSig,
                 terminalWrites, reads, readErrs, listenerPanicked>>
  /\ UNCHANGED <<cancelledAtSpawn, committed, hvars, xvars, yvars>>

GNext ==
  \/ CreatePending \/ CheckServiceMethod \/ Connect \/ MethodLookup
  \/ RegisterListener \/ ConnectionStart \/ SpawnAndReturn
  \/ DeliverMessage \/ DeliverCommit \/ DeliverCancel \/ DeliverGarbage
  \/ RunSpawnedWrite \/ StreamTakesMessage \/ Tick
  \/ OpenCall \/ ClientMessageEvent \/ ResponseInfoOrError \/ ResponseMessage
  \/ ResponseComplete \/ ReadMessage \/ ReadEnd \/ ReadError
  \/ FinalizeClosed \/ CancelEvent \/ CancelUpdate \/ Unlisten

(* ------------------- send_http_request (http_request.rs) -------------- *)
NoPath == "none"
CancelledMsg == "Request was cancelled"
HttpStatuses == {200, 404}
PendingResponse ==
  [status |-> 0, elapsed |-> 0, elapsed_headers |-> 0, error |-> NoError, body_path |-> NoPath]

\* "request": cmd_send_http_request (lib.rs 1025-1075), a stored response;
\* "ephemeral": cmd_send_ephemeral_request (lib.rs 699-741), HttpResponse::new() without id;
\* "plugin": handle_plugin_event (lib.rs 2052-2064), a stored response and a
\*           watch channel nobody sends on
HttpKinds == {"request", "ephemeral", "plugin"}
HasId == hkind # "ephemeral"
\* a cancel_http_response_<id> listener holding cancel_tx exists (lib.rs 725-730,
\* 1059-1064); the plugin send registers none
HasCancelListener == hkind # "plugin"
SenderAlive_DroppedAtOnce == hkind # "plugin"
\* the sending half outlives the send: the listener closure owns cancel_tx, and
\* the plugin's temporary channel(false) tuple (lib.rs 2062) is dropped at the
\* end of the statement, after send_http_request(..).await has completed
SenderAlive == TRUE

HInit ==
  /\ hpc = "idle"
  /\ hkind = "request"
  /\ response = PendingResponse
  /\ stored = PendingResponse
  /\ cancel_rx = FALSE
  /\ netTask = "none"
  /\ netResult = [ok |-> TRUE, status |-> 0]
  /\ bodyFile = FALSE
  /\ houtcome = "none"
  /\ jarWrites = 0

\* an update that leaves the body_path column alone
update_response_DropsBodyPath(row, r) ==
  [row EXCEPT !.elapsed = r.elapsed, !.status = r.status, !.error = r.error]

\* update_response (queries.rs 1163-1215) writes these columns of the row and
\* returns the row
update_response(row, r) ==
  [row EXCEPT !.elapsed = r.elapsed, !.status = r.status,
              !.body_path = r.body_path, !.error = r.error]

\* update_response_if_id (queries.rs 1152-1161): the value it returns
update_response_if_id(row, r) == IF HasId THEN update_response(row, r) ELSE r

\* a response_err that forgets the elapsed sentinel
response_err_KeepsElapsed(r, msg) == [r EXCEPT !.error = msg]

\* response_err (lib.rs 1077-1090): the value it builds
response_err(r, msg) == [r EXCEPT !.elapsed = -1, !.error = msg]

\* the command creates the pending response and calls send_http_request
HttpStart ==
  /\ hpc = "idle"
  /\ \E k \in HttpKinds : hkind' = k
  /\ hpc' = "build"
  /\ UNCHANGED <<response, stored, cancel_rx, netTask, netResult, bodyFile, houtcome>>
  /\ UNCHANGED <<jarWrites, gvars, xvars, yvars>>

\* what can go wrong before the request is dispatched (lines 93-115, 258-364)
BuildOutcomes ==
  {"ok", "bad_url", "binary_unreadable", "part_unreadable", "bad_content_type", "build_error"}

\* a part file read with ? in place of response_err
ReturnsErrString_AlsoUnreadablePart(o) == o \in {"bad_content_type", "part_unreadable"}

\* lines 326 and 332: mime_str(..).map_err(..)? returns Err without response_err
ReturnsErrString(o) == o = "bad_content_type"

\* lines 34-372: build the request; every failure but one goes through response_err
HttpBuild ==
  /\ hpc = "build"
  /\ \E o \in BuildOutcomes :
       IF o = "ok"
       THEN /\ hpc' = "racing"
            /\ netTask' = "running"
            /\ UNCHANGED <<response, stored, houtcome>>
       ELSE IF ReturnsErrString(o)
       THEN /\ hpc' = "returned_err"
            /\ houtcome' = o
            /\ UNCHANGED <<response, stored, netTask>>
       ELSE /\ response' = update_response_if_id(stored, response_err(response, o))
            /\ stored' = IF HasId THEN response' ELSE stored
            /\ hpc' = "returned"
            /\ houtcome' = o
            /\ UNCHANGED netTask
  /\ UNCHANGED <<hkind, cancel_rx, netResult, bodyFile>>
  /\ UNCHANGED <<jarWrites, gvars, xvars, yvars>>

\* the cancel_http_response_<id> listener (lib.rs 1059-1064, 725-730): cancel_tx.send(true)
HttpCancel ==
  /\ hpc \notin {"idle"}
  /\ HasCancelListener
  /\ ~cancel_rx
  /\ cancel_rx' = TRUE
  /\ UNCHANGED <<hpc, hkind, response, stored, netTask, netResult, bodyFile, houtcome>>
  /\ UNCHANGED <<jarWrites, gvars, xvars, yvars>>

\* a network task that writes the body itself once the send has returned
NetFinish_WritesBody ==
  /\ netTask = "running"
  /\ netTask' = "done"
  /\ \E ok \in BOOLEAN, st \in HttpStatuses :
       netResult' = [ok |-> ok, status |-> IF ok THEN st ELSE 0]
  /\ bodyFile' = (bodyFile \/ hpc = "returned")
  /\ UNCHANGED <<hpc, hkind, response, stored, cancel_rx, houtcome>>
  /\ UNCHANGED <<jarWrites, gvars, xvars, yvars>>

\* lines 370-372: client.execute(..) finishes in the spawned task
NetFinish ==
  /\ netTask = "running"
  /\ netTask' = "done"
  /\ \E ok \in BOOLEAN, st \in HttpStatuses :
       netResult' = [ok |-> ok, status |-> IF ok THEN st ELSE 0]
  /\ UNCHANGED <<hpc, hkind, response, stored, cancel_rx, bodyFile, houtcome>>
  /\ UNCHANGED <<jarWrites, gvars, xvars, yvars>>

\* line 376: cancel_rx.changed() is ready: the value changed, or the sender is gone
ChangedReady == cancel_rx \/ ~SenderAlive

\* lines 374-379, cancel branch of the select
SelectCancel ==
  /\ hpc = "racing"
  /\ ChangedReady
  /\ response' = update_response_if_id(stored, response_err(response, CancelledMsg))
  /\ stored' = IF HasId THEN response' ELSE stored
  /\ hpc' = "returned"
  /\ houtcome' = "cancelled"
  /\ UNCHANGED <<hkind, cancel_rx, netTask, netResult, bodyFile>>
  /\ UNCHANGED <<jarWrites, gvars, xvars, yvars>>

\* lines 375 and 381-404, 481: the response branch of the select
SelectResponse ==
  /\ hpc = "racing"
  /\ netTask = "done"
  /\ IF netResult.ok
     THEN /\ \E eh \in 0..MaxElapsed :
               response' = [response EXCEPT !.elapsed_headers = eh,
                                            !.status = netResult.status]
          /\ hpc' = "body"
          /\ UNCHANGED <<stored, houtcome>>
     ELSE /\ response' = update_response_if_id(stored, response_err(response, "transport error"))
          /\ stored' = IF HasId THEN response' ELSE stored
          /\ hpc' = "returned"
          /\ houtcome' = "transport_error"
  /\ UNCHANGED <<hkind, cancel_rx, netTask, netResult, bodyFile>>
  /\ UNCHANGED <<jarWrites, gvars, xvars, yvars>>

\* lines 406-479: receive the body, write the file, update the row, write the
\* cookies back when a jar was given (455-477);
\* line 407: a failed body receipt hits expect("Failed to get body")
ReceiveBody ==
  /\ hpc = "body"
  /\ \E ok \in BOOLEAN, e \in response.elapsed_headers..MaxElapsed :
       IF ok
       THEN /\ bodyFile' = TRUE
            /\ \E has_jar \in BOOLEAN : jarWrites' = IF has_jar THEN jarWrites + 1 ELSE jarWrites
            /\ response' = update_response_if_id(stored,
                              [response EXCEPT !.elapsed = e, !.body_path = "responses/file"])
            /\ stored' = IF HasId THEN response' ELSE stored
            /\ hpc' = "returned"
            /\ houtcome' = "success"
       ELSE /\ hpc' = "panicked"
            /\ houtcome' = "body_error"
            /\ UNCHANGED <<response, stored, bodyFile, jarWrites>>
  /\ UNCHANGED <<hkind, cancel_rx, netTask, netResult>>
  /\ UNCHANGED <<gvars, xvars, yvars>>

HNext ==
  \/ HttpStart \/ HttpBuild \/ HttpCancel \/ NetFinish
  \/ SelectCancel \/ SelectResponse \/ ReceiveBody

(* --------------- concurrent sends (lib.rs 699-741, 1025-1075) ---------- *)
MaxSends == 2
SendIds == 1..MaxSends

\* the cookies of the shared jar before any of the sends
JarBefore == {0}

IdleSend ==
  [pc |-> "idle", kind |-> "request", cancel |-> FALSE, seed |-> {},
   net |-> "none", ok |-> FALSE, set_cookies |-> {}, outcome |-> "none"]

\* lib.rs 705 and 1054: HttpResponse::new() has the empty id, a created
\* response a generated one
response_id(i) == IF sends[i].kind = "ephemeral" THEN "" ELSE ToString(i)

\* lib.rs 726 and 1060: format!("cancel_http_response_{}", response.id)
cancel_event_name(i) == <<"cancel_http_response_", response_id(i)>>

\* lib.rs 725-730, 1059-1064: listen_any registers the closure; neither
\* command removes it
listening(j) == sends[j].pc # "idle"

\* the command reads the jar (lib.rs 715-722, 1045-1052), registers the cancel
\* listener and calls send_http_request, which seeds the client's cookie store
\* from the jar (http_request.rs 60-83) and spawns the call (370-372)
SendStart(i) ==
  /\ sends[i].pc = "idle"
  /\ \E k \in {"request", "ephemeral"} :
       sends' = [sends EXCEPT ![i] = [@ EXCEPT !.pc = "racing", !.kind = k,
                                               !.seed = jar, !.net = "running"]]
  /\ UNCHANGED <<jar, lastWriter, cancelRequested, rpc, http_responses, grpc_connections>>
  /\ UNCHANGED <<gvars, hvars, xvars>>

\* the cancel event of send i is emitted: every listener registered under its
\* name runs cancel_tx.send(true)
EmitCancel(i) ==
  /\ sends[i].pc = "racing"
  /\ i \notin cancelRequested
  /\ sends' = [j \in SendIds |->
                 IF listening(j) /\ cancel_event_name(j) = cancel_event_name(i)
                 THEN [sends[j] EXCEPT !.cancel = TRUE]
                 ELSE sends[j]]
  /\ cancelRequested' = cancelRequested \cup {i}
  /\ UNCHANGED <<jar, lastWriter, rpc, http_responses, grpc_connections>>
  /\ UNCHANGED <<gvars, hvars, xvars>>

\* http_request.rs 370-372: the call of send i finishes; a response may set a cookie
NetDone(i) ==
  /\ sends[i].net = "running"
  /\ \E ok \in BOOLEAN, sc \in SUBSET {i} :
       sends' = [sends EXCEPT ![i] = [@ EXCEPT !.net = "done", !.ok = ok,
                                               !.set_cookies = IF ok THEN sc ELSE {}]]
  /\ UNCHANGED <<jar, lastWriter, cancelRequested, rpc, http_responses, grpc_connections>>
  /\ UNCHANGED <<gvars, hvars, xvars>>

\* http_request.rs 376-378: the cancel branch of the select
SendCancelled(i) ==
  /\ sends[i].pc = "racing"
  /\ sends[i].cancel
  /\ sends' = [sends EXCEPT ![i] = [@ EXCEPT !.pc = "returned", !.outcome = "cancelled"]]
  /\ UNCHANGED <<jar, lastWriter, cancelRequested, rpc, http_responses, grpc_connections>>
  /\ UNCHANGED <<gvars, hvars, xvars>>

\* a write-back that merges with the jar as it is stored now
cookie_write_back_Merges(i) == jar \cup sends[i].seed \cup sends[i].set_cookies

\* http_request.rs 464-473: cookie_jar.cookies = every cookie of the send's own
\* store, which holds the seed and what the response set
cookie_write_back(i) == sends[i].seed \cup sends[i].set_cookies

\* http_request.rs 375, 381-479, 481: the response branch; only a successful
\* send writes the jar (upsert_cookie_jar, 474)
SendCompleted(i) ==
  /\ sends[i].pc = "racing"
  /\ sends[i].net = "done"
  /\ IF sends[i].ok
     THEN /\ jar' = cookie_write_back(i)
          /\ lastWriter' = i
          /\ sends' = [sends EXCEPT ![i] = [@ EXCEPT !.pc = "returned", !.outcome = "success"]]
     ELSE /\ sends' = [sends EXCEPT ![i] = [@ EXCEPT !.pc = "returned",
                                                     !.outcome = "transport_error"]]
          /\ UNCHANGED <<jar, lastWriter>>
  /\ UNCHANGED <<cancelRequested, rpc, http_responses, grpc_connections>>
  /\ UNCHANGED <<gvars, hvars, xvars>>

SendsNext ==
  \E i \in SendIds :
    \/ SendStart(i) \/ EmitCancel(i) \/ NetDone(i)
    \/ SendCancelled(i) \/ SendCompleted(i)

(* ---------------- startup recovery (lib.rs 1761-1774) ------------------ *)
MaxRecords == 2
RecordIds == 1..MaxRecords

\* a cond_where that also matches finished records
is_pending_NotAborted(row) == row.elapsed >= 0

\* queries.rs 1128 and 1145: cond_where(Expr::col(Elapsed).eq(0))
is_pending(row) == row.elapsed = 0

\* queries.rs 1135-1150
cancel_pending_responses ==
  /\ rpc = "ready"
  /\ http_responses' =
       [id \in RecordIds |->
          IF is_pending(http_responses[id])
          THEN [http_responses[id] EXCEPT !.elapsed = -1, !.status_reason = "Cancelled"]
          ELSE http_responses[id]]
  /\ rpc' = "responses_done"
  /\ UNCHANGED <<sends, jar, lastWriter, cancelRequested, grpc_connections>>
  /\ UNCHANGED <<gvars, hvars, xvars>>

\* queries.rs 1121-1133
cancel_pending_grpc_connections ==
  /\ rpc = "responses_done"
  /\ grpc_connections' =
       [id \in RecordIds |->
          IF is_pending(grpc_connections[id])
          THEN [grpc_connections[id] EXCEPT !.elapsed = -1]
          ELSE grpc_connections[id]]
  /\ rpc' = "done"
  /\ UNCHANGED <<sends, jar, lastWriter, cancelRequested, http_responses>>
  /\ UNCHANGED <<gvars, hvars, xvars>>

RecoveryNext == cancel_pending_responses \/ cancel_pending_grpc_connections

\* no send in flight, recovery over, no record left from an earlier run
YInit ==
  /\ sends = [i \in SendIds |-> IdleSend]
  /\ jar = JarBefore
  /\ lastWriter = 0
  /\ cancelRequested = {}
  /\ rpc = "done"
  /\ http_responses = [id \in RecordIds |-> [elapsed |-> -1, status_reason |-> "Cancelled"]]
  /\ grpc_connections = [id \in RecordIds |-> [elapsed |-> -1]]

\* the auxiliary variables while the engine or the executor runs
XInit ==
  /\ listing = <<>>
  /\ hdrIn = <<>>
  /\ authIn = "none"
  /\ hdrOut = [n \in {} |-> ""]
  /\ urlIn = <<>>
  /\ url = <<>>
  /\ urlOnce = <<>>
  /\ napplied = 0

Init == GInit /\ HInit /\ XInit /\ YInit

SendsSpec == Init /\ [][SendsNext]_vars

RecoveryInit ==
  /\ GInit /\ HInit /\ XInit
  /\ sends = [i \in SendIds |-> IdleSend]
  /\ jar = JarBefore
  /\ lastWriter = 0
  /\ cancelRequested = {}
  /\ rpc = "ready"
  /\ http_responses \in [RecordIds -> [elapsed : -1..MaxElapsed, status_reason : {"none", "OK"}]]
  /\ grpc_connections \in [RecordIds -> [elapsed : -1..MaxElapsed]]

RecoverySpec == RecoveryInit /\ [][RecoveryNext]_vars

Spec == Init /\ [][GNext]_vars

HttpSpec == Init /\ [][HNext]_vars

(* ======================= properties: gRPC engine ====================== *)
Terminal == terminalWrites >= 1
Max(S) == CHOOSE x \in S : \A y \in S : y <= x
InvocationOver == pc \in {"returned_ok", "returned_err"} /\ sel \in {"none", "finished"}

\* C1: the event log of a connection never contains more than one
\* ConnectionEnd event, whatever the stream yields and the caller signals.
C1_AtMostOneConnectionEnd == Cardinality(EndIdx(events)) <= 1

\* C2: a connection whose record has received its terminal update has a
\* ConnectionEnd event in its log (never zero), connect failure included.
C2_TerminalHasConnectionEnd == Terminal => EndIdx(events) # {}

\* C3: once the connection is finalized, the status on the record is the
\* status of the most recently recorded ConnectionEnd event.
C3_StatusIsEndStatus ==
  Terminal => /\ EndIdx(events) # {}
              /\ conn.status = events[Max(EndIdx(events))].status

\* C4: the terminal update of the connection record is written at most once,
\* and no later step writes the record again.
C4_OneTerminalUpdate ==
  /\ [](terminalWrites <= 1)
  /\ [][Terminal => conn' = conn]_vars

\* completion and cancellation close together: the signal was raised, the
\* completion branch won, the task has finished
C4_Witness ==
  /\ sel = "finished" /\ cancelled /\ gl = "done"
  /\ terminalWrites = 1 /\ conn.status # CodeCancelled

\* C5: an invocation that created the pending record ends with a terminal
\* update carrying a status or an error, on every path.
C5_EndsWithTerminalUpdate ==
  InvocationOver => /\ Terminal
                    /\ (conn.status # PendingStatus \/ conn.error # NoError)

\* C6: when cancellation wins the race against the exchange, a ConnectionEnd
\* event with the cancellation code and content "Cancelled" is recorded, the
\* record becomes Cancelled with its elapsed written, and no ServerMessage
\* event is recorded afterwards.
CancelWon == gl = "dropped"
HasCancelledEnd ==
  \E i \in DOMAIN events :
    /\ IsEnd(events[i])
    /\ events[i].status = CodeCancelled
    /\ events[i].content = "Cancelled"
AppendsServerMessage ==
  /\ Len(events') = Len(events) + 1
  /\ events'[Len(events')].event_type = "server_message"
C6_CancellationWins ==
  /\ [](CancelWon => HasCancelledEnd)
  /\ [](CancelWon /\ sel \in {"unlisten", "finished"} =>
          /\ conn.status = CodeCancelled
          /\ conn.elapsed \in 0..MaxElapsed
          /\ terminalWrites = 1)
  /\ [][CancelWon => ~AppendsServerMessage]_vars

\* cancellation won in the middle of a stream that had delivered a message
C6_Witness ==
  /\ CancelWon /\ sel = "finished" /\ shape.ss
  /\ \E i \in DOMAIN events : events[i].event_type = "server_message"
  /\ conn.status = CodeCancelled

\* C7: a Cancel handed to the listener of a connection that is not yet
\* terminal always sets the connection's Cancellation Signal.
C7_CancelAlwaysSignals ==
  [][(/\ delivered' = delivered + 1
      /\ lastSig' = "Cancel"
      /\ listener
      /\ ~Terminal) => cancelled']_vars

(* ======================= properties: HTTP executor ==================== *)
HttpEnded == hpc \in {"returned", "returned_err", "panicked"}
FinalResponse == IF HasId THEN stored ELSE response

\* C8: when cancellation wins the race, execute returns without waiting for
\* the network task, and the returned and stored Response has elapsed = -1,
\* error "Request was cancelled", no status and no body storage handle.
C8_CancelledResponse ==
  houtcome = "cancelled" =>
    /\ hpc = "returned"
    /\ response.elapsed = -1
    /\ response.error = CancelledMsg
    /\ response.status = 0
    /\ response.body_path = NoPath
    /\ (HasId => /\ stored.elapsed = -1
                 /\ stored.error = CancelledMsg
                 /\ stored.status = 0
                 /\ stored.body_path = NoPath)

\* the send has returned cancelled while the network task is still running
C8_Witness ==
  /\ houtcome = "cancelled" /\ hpc = "returned"
  /\ cancel_rx /\ netTask = "running" /\ HasId

\* C9: the final Response has exactly one of {status, error} set, and its
\* elapsed is >= 0 unless the send was cancelled or never started.
C9_ExactlyOneOfStatusError ==
  HttpEnded =>
    /\ (FinalResponse.status # 0) # (FinalResponse.error # NoError)
    /\ \/ FinalResponse.elapsed >= 0
       \/ houtcome = "cancelled" /\ FinalResponse.elapsed = -1
       \/ netTask = "none"

\* C10: an execute call that started from a pending Response ends with that
\* Response stored with a status or an error, on every failure path.
C10_NeverLeftPending ==
  HttpEnded /\ HasId => (stored.status # 0 \/ stored.error # NoError)

\* C11: the cancellation signal is a one-shot latch. Once true it never goes
\* back to false; a Cancel delivered when it is already true changes nothing
\* of the connection; and when the signal was raised before the spawned task
\* began to wait, the cancel branch of the race is ready as soon as the race
\* begins, so the cancellation is not missed.
C11_OneShotLatch ==
  /\ [][cancelled => cancelled']_vars
  /\ [][(cancelled /\ delivered' = delivered + 1 /\ lastSig' = "Cancel")
          => UNCHANGED <<pc, conn, events, listener, maybe_in_msg_tx, in_msg_rx,
                         forwarded, cancelled, shape, gl, openRes, sel,
                         spawnedWrites, terminalWrites, listenerPanicked>>]_vars
  /\ []((cancelledAtSpawn /\ sel = "racing") => ENABLED CancelEvent)

\* the signal was raised before the race began, then raised again, and the
\* spawned task took the cancel branch before the exchange made any step
C11_Witness ==
  /\ cancelledAtSpawn
  /\ delivered = 2
  /\ lastSig = "Cancel"
  /\ gl = "dropped"
  /\ sel = "finished"
  /\ Len(events) = 2

\* C12: the caller-message listener is deregistered once the connection is
\* terminal, on every terminating path. While a terminal connection still has
\* its listener, the unlisten is the spawned task's next step; when the
\* invocation is over no terminal connection has a listener; and a listener
\* that was removed is not registered again.
C12_ListenerDeregistered ==
  /\ []((Terminal /\ listener) => ENABLED Unlisten)
  /\ []((Terminal /\ InvocationOver) => ~listener)
  /\ [][(listener' /\ ~listener) => pc = "listen"]_vars

\* a cancelled connection whose task has run to its end
C12_Witness ==
  /\ sel = "finished"
  /\ gl = "dropped"
  /\ conn.status = CodeCancelled
  /\ Terminal
  /\ ~listener

\* the callback runs past its guards (lines 338-352) for the delivered signal
Accepted == listener /\ ~cb_ignores /\ ~cb_panics_on_lock

SignalDelivered(c) == delivered' = delivered + 1 /\ lastSig' = c

\* C13: every payload message accepted on the caller-message channel of a live
\* connection starts the write of a ClientMessage event with its raw content,
\* whether or not the payload deserializes.
C13_EveryPayloadRecorded ==
  [][\A m \in Messages :
       (Accepted /\ SignalDelivered(m.content))
         => \E w \in spawnedWrites' \ spawnedWrites :
              w.event_type = "client_message" /\ w.content = m.content]_vars

\* C14: an accepted payload that fails to deserialize starts the write of
\* exactly one Error event and changes nothing else of the connection: no
\* terminal update, no ConnectionEnd, nothing put on the relay, the listener
\* and its sending half stay as they were, so later messages, commit and
\* cancel are accepted as before.
C14_DeserializeFailureIsLocal ==
  [][(Accepted /\ SignalDelivered("m_bad"))
       => /\ \E w \in spawnedWrites' :
               /\ spawnedWrites' \ spawnedWrites = {w}
               /\ w.event_type = "error"
          /\ Accepted'
          /\ UNCHANGED <<pc, conn, events, listener, maybe_in_msg_tx, in_msg_rx,
                         forwarded, cancelled, gl, sel, terminalWrites,
                         listenerPanicked>>]_vars

\* a payload that failed to deserialize was answered with an Error event, and
\* the valid payload that followed it was put on the relay and recorded
C14_Witness ==
  /\ \E w \in spawnedWrites : w.seq = 1 /\ w.event_type = "error"
  /\ \E w \in spawnedWrites : w.seq = 2 /\ w.event_type = "client_message"
  /\ ~Terminal

(* ------------------- the event store read back ------------------------ *)
\* queries.rs 593-609: the rows of the connection ORDER BY created_at DESC;
\* the query fixes no order among rows of the same second
list_grpc_events(log) ==
  {[i \in 1..Len(log) |-> log[q[i]]] :
     q \in {p \in Permutations(1..Len(log)) :
              \A i, j \in 1..Len(log) :
                i < j => log[p[i]].created_at >= log[p[j]].created_at}}

\* an event of the connection is recorded
RecordEvent ==
  /\ Len(events) < MaxLog
  /\ \E t \in {"server_message", "connection_end"} :
       events' = upsert_grpc_event(events, GrpcEvent(t, ToString(Len(events) + 1), NoStatus))
  /\ UNCHANGED <<pc, conn, listener, maybe_in_msg_tx, in_msg_rx, forwarded, cancelled,
                 shape, gl, openRes, sel, spawnedWrites, now, delivered, lastSig,
                 terminalWrites, reads, readErrs, listenerPanicked, cancelledAtSpawn,
                 committed>>
  /\ UNCHANGED <<hvars, xvars, yvars>>

\* the log of the connection is read back
ListEvents ==
  /\ listing' \in list_grpc_events(events)
  /\ UNCHANGED <<hdrIn, authIn, hdrOut, urlIn, url, urlOnce, napplied>>
  /\ UNCHANGED <<gvars, hvars, yvars>>

ReplayNext == RecordEvent \/ Tick \/ ListEvents

ReplaySpec == Init /\ [][ReplayNext]_vars

\* C15: reading the event log back returns the events in the order in which
\* they were recorded, with identical content.
C15_ListingInRecordedOrder ==
  [][ListEvents => listing' = events]_vars

\* a client-streaming connection committed before any payload was sent
ZeroCommit ==
  /\ shape.cs /\ ~shape.ss
  /\ listener \/ sel \in {"unlisten", "finished"}
  /\ ~maybe_in_msg_tx
  /\ forwarded = <<>> /\ in_msg_rx = <<>>
  /\ \A w \in spawnedWrites : w.event_type # "client_message"
  /\ \A i \in DOMAIN events : events[i].event_type # "client_message"

ExchangeStep == OpenCall \/ ResponseInfoOrError \/ ResponseMessage \/ ResponseComplete

\* C16: in a client-streaming connection a commit accepted when no payload
\* was sent drops the sending half, which closes the outbound half once the
\* command has returned; the exchange is then never blocked on the relay: the
\* call can return, and when it returns a response the Info, the single
\* ServerMessage and ConnectionEnd(Ok) are recorded and the connection becomes
\* terminal with status Ok.
C16_CommitWithoutMessages ==
  /\ [][(Accepted /\ SignalDelivered("Commit"))
          => (~maybe_in_msg_tx' /\ UNCHANGED <<in_msg_rx, forwarded, events, conn, cancelled>>)]_vars
  /\ []((ZeroCommit /\ pc = "returned_ok") => OutboundClosed)
  /\ []((ZeroCommit /\ Racing /\ gl \in {"open", "dispatch", "resp_msg", "resp_end"})
          => ENABLED ExchangeStep)
  /\ []((ZeroCommit /\ gl = "done" /\ openRes.ok /\ sel = "finished")
          => /\ Cardinality({i \in DOMAIN events : events[i].event_type = "server_message"}) = 1
             /\ \E i \in EndIdx(events) : events[i].status = CodeOk
             /\ Terminal /\ conn.status = CodeOk)

\* committed with no payload, the response was received and the connection
\* is terminal
C16_Witness ==
  /\ ZeroCommit
  /\ lastSig = "Commit"
  /\ gl = "done" /\ openRes.ok /\ sel = "finished"
  /\ \E i \in DOMAIN events : events[i].event_type = "server_message"
  /\ conn.status = CodeOk

\* C17: once the ConnectionEnd event of a connection is recorded, no task
\* appends a further event to its log, the event writes started earlier by
\* the listener included.
C17_NoEventAfterConnectionEnd ==
  [][EndIdx(events) # {} => events' = events]_vars

(* --------------- the request headers (http_request.rs 121-202) -------- *)
HeaderNames == {"Authorization", "authorization", "X-Trace", ""}
HeaderValues == {"user-secret", "", "has-newline"}
AuthTypes == {"none", "basic", "bearer"}
HttpRequestHeader == [name : HeaderNames, value : HeaderValues, enabled : BOOLEAN]

\* lines 152-158: HeaderName::from_bytes rejects an empty name and lower-cases
HeaderName_valid(n) == n # ""
HeaderName_from_bytes(n) ==
  CASE n = "Authorization" -> "authorization"
    [] n = "X-Trace" -> "x-trace"
    [] OTHER -> n

\* lines 159-165: HeaderValue::from_str rejects a value with a line break
HeaderValue_valid(v) == v # "has-newline"

\* HeaderMap::insert replaces the value stored under the name
insert(map, k, v) == [n \in DOMAIN map \cup {k} |-> IF n = k THEN v ELSE map[n]]

\* lines 140-168: a per-request header is inserted unless it is empty,
\* disabled or invalid
InsertsHeader(h) ==
  /\ ~(h.name = "" /\ h.value = "")
  /\ h.enabled
  /\ HeaderName_valid(h.name)
  /\ HeaderValue_valid(h.value)

RECURSIVE request_headers_loop(_, _)
request_headers_loop(map, hs) ==
  IF hs = <<>> THEN map
  ELSE request_headers_loop(
         IF InsertsHeader(Head(hs))
         THEN insert(map, HeaderName_from_bytes(Head(hs).name), Head(hs).value)
         ELSE map,
         Tail(hs))

\* lines 185-200: the computed Authorization value
AuthValue(a) == IF a = "basic" THEN "Basic dXNlcjpwdw" ELSE "Bearer token"

\* lines 170-202
authentication(map, a) ==
  IF a \in {"basic", "bearer"}
  THEN insert(map, HeaderName_from_bytes("Authorization"), AuthValue(a))
  ELSE map

\* lines 121-123
DefaultHeaders == [n \in {"user-agent", "accept"} |-> IF n = "accept" THEN "*/*" ELSE "yaak"]

\* the per-request headers inserted after the computed Authorization header
request_headers_AuthFirst(hs, a) ==
  request_headers_loop(authentication(DefaultHeaders, a), hs)

\* lines 121-202: defaults, then the per-request headers, then authentication
request_headers(hs, a) ==
  authentication(request_headers_loop(DefaultHeaders, hs), a)

RECURSIVE SeqsUpTo(_, _)
SeqsUpTo(S, n) ==
  IF n = 0 THEN {<<>>}
  ELSE LET shorter == SeqsUpTo(S, n - 1)
       IN shorter \cup {Append(q, x) : q \in shorter, x \in S}

HeaderInit ==
  /\ GInit /\ HInit /\ YInit
  /\ hdrIn \in SeqsUpTo(HttpRequestHeader, MaxHeaders)
  /\ authIn \in AuthTypes
  /\ hdrOut = [n \in {} |-> ""]
  /\ listing = <<>>
  /\ urlIn = <<>> /\ url = <<>> /\ urlOnce = <<>> /\ napplied = 0

HeadersBuilt == "user-agent" \in DOMAIN hdrOut

\* lines 356-357: the assembled map is handed to the request builder
ApplyHeaders ==
  /\ ~HeadersBuilt
  /\ hdrOut' = request_headers(hdrIn, authIn)
  /\ UNCHANGED <<listing, hdrIn, authIn, urlIn, url, urlOnce, napplied>>
  /\ UNCHANGED <<gvars, hvars, yvars>>

HeaderNext == ApplyHeaders

HeaderSpec == HeaderInit /\ [][HeaderNext]_vars

\* the per-request Authorization headers that the loop inserts
UserAuthorization ==
  {i \in DOMAIN hdrIn : /\ InsertsHeader(hdrIn[i])
                        /\ HeaderName_from_bytes(hdrIn[i].name) = "authorization"}

\* C18 as stated: with a computed authentication header and an enabled
\* per-request Authorization header, the request carries the per-request value.
C18_UserAuthorizationWins ==
  (HeadersBuilt /\ authIn \in {"basic", "bearer"} /\ UserAuthorization # {})
    => hdrOut["authorization"] = hdrIn[Max(UserAuthorization)].value

\* C18 as amended: with a computed authentication header (basic or bearer)
\* the request carries the computed Authorization value, whether or not an
\* enabled per-request Authorization header is present; without computed
\* authentication it carries the value of the last per-request Authorization
\* header that was inserted.
C18_ComputedAuthWins ==
  HeadersBuilt =>
    /\ authIn \in {"basic", "bearer"} => hdrOut["authorization"] = AuthValue(authIn)
    /\ (authIn = "none" /\ UserAuthorization # {})
         => hdrOut["authorization"] = hdrIn[Max(UserAuthorization)].value
    /\ (authIn = "none" /\ UserAuthorization = {}) => "authorization" \notin DOMAIN hdrOut

\* basic authentication and an enabled per-request Authorization header: the
\* request carries the computed value
C18_Witness ==
  /\ HeadersBuilt
  /\ authIn = "basic"
  /\ \E i \in UserAuthorization : hdrIn[i].value = "user-secret"
  /\ hdrOut["authorization"] = AuthValue("basic")

\* C19: a network-layer failure of a send, before the response headers or
\* while the body is received, is a normal terminal outcome: the executor
\* returns with the Response finalized with elapsed -1 and the error's
\* description, and it never panics.
C19_NetworkFailureIsOutcome ==
  /\ hpc # "panicked"
  /\ houtcome \in {"transport_error", "body_error"}
       => /\ hpc = "returned"
          /\ FinalResponse.elapsed = -1
          /\ FinalResponse.error # NoError

(* ----------------- ensure_proto (http_request.rs 485-506) ------------- *)
\* A URL string is a sequence of tokens, each standing for the characters it
\* shows.
Schemes == {"http://", "https://"}
UrlTokens == Schemes \cup {"example", ".com", ".app", ".dev", ".page", ".APP", "/", ":8080"}

starts_with(u, t) == Len(u) >= 1 /\ u[1] = t

\* Url::from_str("http://" + url_str): the authority runs up to the first
\* '/' or ':'
AuthorityEnd(u) ==
  IF \E i \in DOMAIN u : u[i] \in Schemes \cup {"/", ":8080"}
  THEN CHOOSE i \in DOMAIN u :
         /\ u[i] \in Schemes \cup {"/", ":8080"}
         /\ \A j \in 1..(i - 1) : u[j] \notin Schemes \cup {"/", ":8080"}
  ELSE Len(u) + 1

\* the host is lower-cased by the parser
to_lowercase(t) == IF t = ".APP" THEN ".app" ELSE t

\* u.host(): the characters before the first ':' or '/'; of a scheme token
\* inside the string the letters before its ':' belong to the host
host(u) ==
  LET k == AuthorityEnd(u)
      labels == [i \in 1..(k - 1) |-> to_lowercase(u[i])]
  IN IF k <= Len(u) /\ u[k] \in Schemes
     THEN Append(labels, IF u[k] = "http://" THEN "http" ELSE "https")
     ELSE labels

\* Url::from_str fails on an empty host and on a port that is not a number
Url_from_str_ok(u) ==
  LET k == AuthorityEnd(u)
  IN /\ host(u) # <<>>
     /\ (k <= Len(u) /\ u[k] = ":8080") => (k = Len(u) \/ u[k + 1] = "/")

ends_with(h, t) == h # <<>> /\ h[Len(h)] = t

\* an ensure_proto without the early return for a URL that has a scheme
ensure_proto_AlwaysPrepends(u) ==
  IF /\ Url_from_str_ok(u)
     /\ ends_with(host(u), ".app") \/ ends_with(host(u), ".dev") \/ ends_with(host(u), ".page")
  THEN <<"https://">> \o u
  ELSE <<"http://">> \o u

\* lines 485-506
ensure_proto(u) ==
  IF starts_with(u, "http://") \/ starts_with(u, "https://") THEN u
  ELSE IF /\ Url_from_str_ok(u)
          /\ ends_with(host(u), ".app") \/ ends_with(host(u), ".dev") \/ ends_with(host(u), ".page")
       THEN <<"https://">> \o u
       ELSE <<"http://">> \o u

\* lines 42-45: ensure_proto, then the scheme check of the caller
url_string(u) ==
  LET p == ensure_proto(u)
  IN IF ~starts_with(p, "http://") /\ ~starts_with(p, "https://")
     THEN <<"http://">> \o p
     ELSE p

UrlInit ==
  /\ GInit /\ HInit /\ YInit
  /\ urlIn \in SeqsUpTo(UrlTokens, MaxUrlLen)
  /\ url = urlIn
  /\ urlOnce = <<>>
  /\ napplied = 0
  /\ listing = <<>> /\ hdrIn = <<>> /\ authIn = "none" /\ hdrOut = [n \in {} |-> ""]

\* the normalization is applied to its own result
Normalize ==
  /\ napplied < 2
  /\ url' = url_string(url)
  /\ urlOnce' = IF napplied = 0 THEN url' ELSE urlOnce
  /\ napplied' = napplied + 1
  /\ UNCHANGED <<listing, hdrIn, authIn, hdrOut, urlIn>>
  /\ UNCHANGED <<gvars, hvars, yvars>>

UrlNext == Normalize

UrlSpec == UrlInit /\ [][UrlNext]_vars

HasScheme(u) == starts_with(u, "http://") \/ starts_with(u, "https://")
SecureTlds == {".app", ".dev", ".page"}
HostEndsInSecureTld(u) == Url_from_str_ok(u) /\ \E t \in SecureTlds : ends_with(host(u), t)

\* C20: a URL that starts with http:// or https:// is left unchanged; any
\* other URL gets https:// prepended when its host ends in .app, .dev or
\* .page and http:// prepended in every other case; applying the
\* normalization twice gives the result of applying it once.
C20_SchemeNormalization ==
  /\ napplied >= 1 =>
       /\ HasScheme(urlIn) => urlOnce = urlIn
       /\ (~HasScheme(urlIn) /\ HostEndsInSecureTld(urlIn)) => urlOnce = <<"https://">> \o urlIn
       /\ (~HasScheme(urlIn) /\ ~HostEndsInSecureTld(urlIn)) => urlOnce = <<"http://">> \o urlIn
       /\ urlIn = <<"example", ".app">> => urlOnce = <<"https://", "example", ".app">>
       /\ urlIn = <<"example", ".com">> => urlOnce = <<"http://", "example", ".com">>
       /\ urlIn = <<"https://", "example", ".dev">> => urlOnce = urlIn
       /\ HasScheme(urlOnce)
  /\ napplied = 2 => url = urlOnce

\* example.app was normalized twice and is https://example.app
C20_Witness ==
  /\ napplied = 2
  /\ urlIn = <<"example", ".app">>
  /\ url = <<"https://", "example", ".app">>

TypeIdx(log, t) == {i \in DOMAIN log : log[i].event_type = t}

\* C21: the event log of every connection contains exactly one
\* ConnectionStart event (never two, and one once the invocation is over),
\* recorded before every Info, ServerMessage and ConnectionEnd event.
C21_OneConnectionStart ==
  /\ Cardinality(TypeIdx(events, "connection_start")) <= 1
  /\ (conn.exists /\ InvocationOver) => Cardinality(TypeIdx(events, "connection_start")) = 1
  /\ \A i \in DOMAIN events :
       events[i].event_type \in {"info", "server_message", "connection_end"}
         => \E j \in TypeIdx(events, "connection_start") : j < i

\* C22: when the client does not stream, exactly one ClientMessage event
\* with the single outbound message ("{}" for an empty request message) is
\* recorded (never two, and one once the spawned task has finished), and it
\* precedes every ServerMessage event.
C22_OneClientMessage ==
  (~shape.cs /\ sel # "none") =>
    /\ Cardinality(TypeIdx(events, "client_message")) <= 1
    /\ sel = "finished" =>
         \E i \in TypeIdx(events, "client_message") :
           /\ TypeIdx(events, "client_message") = {i}
           /\ events[i].content = "{}"
    /\ \A i \in TypeIdx(events, "server_message") :
         \E j \in TypeIdx(events, "client_message") : j < i

\* the ServerMessage events up to position i of the log
ServerMessagesUpTo(i) == {j \in TypeIdx(events, "server_message") : j <= i}

C24_WritesInDeliveryOrder ==
  [][\A w \in spawnedWrites \ spawnedWrites' :
       \A v \in spawnedWrites : v.seq >= w.seq]_vars

\* the shape table of the claim: <<client streams, server streams>>
ShapeOf(flags) ==
  IF flags = <<FALSE, FALSE>> THEN "unary"
  ELSE IF flags = <<FALSE, TRUE>> THEN "server_streaming"
  ELSE IF flags = <<TRUE, FALSE>> THEN "client_streaming"
  ELSE "streaming"

\* C25: the call that is opened is the one the shape table gives for the
\* method descriptor's two flags; the flags are fixed by the method lookup
\* and never change afterwards; the relay feeds the stream only when the
\* client streams, and the stream is read in a loop only when the server
\* streams.
C25_ShapeIsFunctionOfFlags ==
  /\ [](openRes.call # "none" => openRes.call = ShapeOf(<<shape.cs, shape.ss>>))
  /\ [][pc # "method" => shape' = shape]_vars
  /\ [][openRes.call # "none" => openRes' = openRes]_vars
  /\ [][forwarded' # forwarded => openRes.call \in {"none", "client_streaming", "streaming"} /\ shape.cs]_vars
  /\ [](gl = "loop" => openRes.call \in {"server_streaming", "streaming"})
  /\ [](gl \in {"resp_msg", "resp_end"} => openRes.call \in {"unary", "client_streaming"})

\* a bidirectional call is open and has taken a relayed message
C25_Witness ==
  /\ openRes.call = "streaming"
  /\ shape.cs /\ shape.ss
  /\ forwarded # <<>>
  /\ gl = "loop"

\* C26: the ConnectionEnd event of a transport/RPC error, whether the error
\* came from opening the call or from reading the stream, has the error's
\* status code (or the unknown code) and content "Failed to connect".
C26_ErrorEndContent ==
  \A i \in EndIdx(events) :
    events[i].status \in ErrCodes \cup {CodeUnknown}
      => events[i].content = "Failed to connect"

\* C27: on clean completion the ConnectionEnd event has content "Connection
\* complete" and the success status for the unary, client-streaming and
\* bidirectional shapes; only for the server-streaming shape is the status
\* unavailable.
C27_CleanCompletionStatus ==
  \A i \in EndIdx(events) :
    (events[i].content = "Connection complete" /\ readErrs = 0)
      => events[i].status = IF ShapeOf(<<shape.cs, shape.ss>>) = "server_streaming"
                            THEN CodeUnavailable ELSE CodeOk

(* ------------------- the relay close to its capacity ------------------ *)
\* A bidirectional call is open, its Info event is recorded, and the server
\* has not yet taken the n messages the caller sent so far.
RelayBacklog(n) == [i \in 1..n |-> "m_0"]

BacklogEvents(n) ==
  [i \in 1..n |-> [event_type |-> "client_message", content |-> "m_0",
                   status |-> NoStatus, created_at |-> 0]]

RelayInit ==
  /\ now = 0
  /\ pc = "returned_ok"
  /\ conn = [NoConn EXCEPT !.exists = TRUE]
  /\ \E n \in {RelayCap - 1, RelayCap} :
       /\ in_msg_rx = RelayBacklog(n)
       /\ events = <<[event_type |-> "connection_start", content |-> "Connecting to url",
                      status |-> NoStatus, created_at |-> 0],
                     [event_type |-> "info", content |-> "Received response",
                      status |-> NoStatus, created_at |-> 0]>> \o BacklogEvents(n)
  /\ listener = TRUE
  /\ maybe_in_msg_tx = TRUE
  /\ forwarded = <<>>
  /\ cancelled = FALSE
  /\ shape = [cs |-> TRUE, ss |-> TRUE]
  /\ gl = "loop"
  /\ openRes = [ok |-> TRUE, code |-> CodeOk, call |-> "streaming"]
  /\ sel = "racing"
  /\ spawnedWrites = {}
  /\ delivered = 0
  /\ lastSig = "none"
  /\ terminalWrites = 0
  /\ reads = 0
  /\ readErrs = 0
  /\ listenerPanicked = FALSE
  /\ cancelledAtSpawn = FALSE
  /\ committed = FALSE
  /\ HInit /\ XInit /\ YInit

RelayNext == DeliverMessage \/ DeliverCommit \/ DeliverCancel \/ StreamTakesMessage

RelaySpec == RelayInit /\ [][RelayNext]_vars

\* the relay gets a message: an accepted payload that deserialized
RelayPut ==
  /\ Accepted /\ SignalDelivered("m_ok")
  /\ in_msg_rx' = Append(in_msg_rx, "m_ok")
  /\ forwarded' = forwarded

\* the stream takes the oldest message of the relay
RelayTake ==
  /\ in_msg_rx # <<>>
  /\ forwarded' = Append(forwarded, Head(in_msg_rx))
  /\ in_msg_rx' = Tail(in_msg_rx)

C29_DeliveryNeverAborts == ~listenerPanicked

PreSendFailures == {"bad_url", "binary_unreadable", "part_unreadable"}

\* C30: when the URL cannot be parsed, or the file of a binary body or of a
\* multipart part cannot be read, the executor returns the Response finalized
\* with elapsed -1 and the error's description (stored when the Response has
\* an id), without status and body, and no network request was dispatched.
C30_PreSendFailure ==
  houtcome \in PreSendFailures =>
    /\ hpc = "returned"
    /\ response.elapsed = -1 /\ response.error = houtcome
    /\ FinalResponse.elapsed = -1 /\ FinalResponse.error = houtcome
    /\ FinalResponse.status = PendingResponse.status
    /\ FinalResponse.body_path = NoPath
    /\ netTask = "none"
    /\ ~bodyFile

\* a stored Response finalized for an unreadable multipart part file
C30_Witness ==
  /\ houtcome = "part_unreadable"
  /\ HasId
  /\ hpc = "returned"
  /\ stored.elapsed = -1 /\ stored.error = "part_unreadable"
  /\ netTask = "none"

(* ------------------------- body storage handle ------------------------- *)
\* the Response another party can see: the stored row, or the value returned
\* by an ephemeral send
ResponseVisible == HasId \/ hpc = "returned"

SuccessfulReturn == hpc = "body" /\ hpc' = "returned"

\* C33: after a successful send of a persisted Response, the Response as
\* returned and as stored carries the time to the headers captured during the
\* call and the total time, with 0 <= time to headers <= total.
C33_BothElapsedCaptured ==
  [][SuccessfulReturn /\ HasId =>
       /\ response'.elapsed_headers = response.elapsed_headers
       /\ stored'.elapsed_headers = response.elapsed_headers
       /\ response'.elapsed = stored'.elapsed
       /\ 0 <= stored'.elapsed_headers
       /\ stored'.elapsed_headers <= stored'.elapsed]_vars

(* ----------------------- the abandoned network task -------------------- *)
\* C35: once execute has returned a cancelled Response, the abandoned network
\* task may run to completion, but its result is discarded: no step changes
\* the stored Response, the returned Response, the body file or the cookie jar.
C35_AbandonedResultDiscarded ==
  [][houtcome = "cancelled" =>
       UNCHANGED <<stored, response, bodyFile, jarWrites, hpc, houtcome>>]_vars

\* the network task has completed with a response after the cancelled return
C35_Witness ==
  /\ houtcome = "cancelled" /\ hpc = "returned" /\ HasId
  /\ netTask = "done" /\ netResult.ok
  /\ stored.error = CancelledMsg /\ stored.status = 0
  /\ ~bodyFile /\ jarWrites = 0

(* ------------------------ unsignalled cancel channel ------------------- *)
\* the outcomes that come from the network call itself
NetworkOutcomes == {"success", "transport_error", "body_error"}

\* C36: a send is finalized as "Request was cancelled" only if its cancellation
\* signal was set to true: a send whose channel is never signalled, the no-op
\* channel of a plugin send included, ends with the network call's own outcome.
C36_CancelledOnlyIfSignalled ==
  /\ houtcome = "cancelled" => cancel_rx
  /\ hkind = "plugin" => houtcome # "cancelled" /\ ~cancel_rx
  /\ HttpEnded /\ ~cancel_rx /\ netTask # "none" => houtcome \in NetworkOutcomes

\* a plugin send has gone through the select and ended with the call's outcome
C36_Witness ==
  /\ hkind = "plugin" /\ ~cancel_rx
  /\ hpc = "returned" /\ netTask = "done"
  /\ houtcome = "transport_error"

(* ----------------------- the shared cookie jar ------------------------- *)
\* C32: when sends sharing one jar run concurrently, the stored jar equals the
\* cookie set written back by whichever send wrote last: the jar as that send
\* read it at its start plus the cookies of its own response; nothing of the
\* other send's write is merged in.
C32_LastWriterWins ==
  IF lastWriter = 0
  THEN jar = JarBefore
  ELSE /\ sends[lastWriter].outcome = "success"
       /\ jar = sends[lastWriter].seed \cup sends[lastWriter].set_cookies

\* both sends succeeded and set a cookie; the cookie of the first writer is
\* no longer in the jar
C32_Witness ==
  \E i, j \in SendIds :
    /\ i # j
    /\ sends[i].outcome = "success" /\ sends[j].outcome = "success"
    /\ sends[i].set_cookies = {i} /\ sends[j].set_cookies = {j}
    /\ lastWriter = j
    /\ i \notin jar /\ j \in jar

(* --------------------- isolation of cancel signals --------------------- *)
\* C37: cancellation signals are isolated per send: only a send whose own
\* cancellation was signalled has its signal set or ends cancelled, two
\* ephemeral sends without a stored id included.
C37_CancelIsolated ==
  \A j \in SendIds :
    /\ sends[j].cancel => j \in cancelRequested
    /\ sends[j].outcome = "cancelled" => j \in cancelRequested

(* --------------------------- startup recovery -------------------------- *)
\* C40: startup recovery marks every Response and Connection still pending
\* (elapsed = 0) as aborted with elapsed = -1 and leaves every record with a
\* non-zero elapsed unchanged; afterwards no record is pending.
C40_RecoveryMarksPending ==
  [][/\ rpc = "ready" /\ rpc' # "ready" =>
          \A id \in RecordIds :
            IF http_responses[id].elapsed = 0
            THEN http_responses'[id].elapsed = -1
            ELSE http_responses'[id] = http_responses[id]
     /\ rpc = "responses_done" /\ rpc' # "responses_done" =>
          \A id \in RecordIds :
            IF grpc_connections[id].elapsed = 0
            THEN grpc_connections'[id] = [grpc_connections[id] EXCEPT !.elapsed = -1]
            ELSE grpc_connections'[id] = grpc_connections[id]
     /\ rpc' = "done" =>
          \A id \in RecordIds :
            /\ http_responses'[id].elapsed # 0
            /\ grpc_connections'[id].elapsed # 0]_vars

\* recovery has run over a pending and a finished Response
C40_Witness ==
  /\ rpc = "done"
  /\ \E a, b \in RecordIds :
       /\ http_responses[a] = [elapsed |-> -1, status_reason |-> "Cancelled"]
       /\ http_responses[b] = [elapsed |-> 1, status_reason |-> "OK"]
       /\ grpc_connections[a].elapsed = -1
       /\ grpc_connections[b].elapsed = 1

(* ------------------ signals after commit or cancellation --------------- *)
\* C38: after a commit or after the cancellation of a connection, every later
\* payload message is ignored: it is not forwarded into the stream and starts
\* neither a ClientMessage nor an Error event; a second commit changes nothing.
C38_IgnoredAfterCommitOrCancel ==
  [][/\ delivered' = delivered + 1
     /\ committed \/ cancelled
     /\ lastSig' \in {"m_ok", "m_bad", "Commit"}
     => UNCHANGED <<in_msg_rx, forwarded, spawnedWrites, events, maybe_in_msg_tx,
                    cancelled, conn>>]_vars

\* a message has reached the registered listener after a commit and left no trace
C38_Witness ==
  /\ committed /\ ~cancelled /\ listener
  /\ lastSig \in {"m_ok", "m_bad"}
  /\ delivered = 2
  /\ in_msg_rx = <<>> /\ forwarded = <<>> /\ spawnedWrites = {}
  /\ \A k \in 1..Len(events) : events[k].event_type \notin {"client_message", "error"}

(* ------------------------- return of the command ----------------------- *)
\* C34: the run operation returns the connection id as soon as the pending
\* Connection record is created: the step that returns the id follows the
\* creation of the record, it waits neither for the connection attempt nor for
\* any part of the exchange.
C34_ReturnsAfterCreate ==
  [][pc' = "returned_ok" /\ pc # "returned_ok" => pc \in {"create", "check"}]_vars

(* --------------------------- the read loop ----------------------------- *)
\* C39: the stream-read loop stops reading after end of stream and after the
\* first read error: the step that meets a read error leaves the loop, so the
\* exchange completes without a cancellation.
C39_ReadLoopStops ==
  [][gl = "loop" /\ readErrs' # readErrs => gl' = "done"]_vars

====
